---- MODULE Spec2Model ----
(***************************************************************************)
(* calibre2komga: migration of a Calibre library into Komga's layout.      *)
(* Strings are sequences of one-character strings.                         *)
(***************************************************************************)
EXTENDS Integers, Sequences, FiniteSets, TLC

VARIABLES
    fin,            \* argument of the pure function under study
    fout,           \* its results
    fpc,            \* position of the pure-function harness
    calibre,        \* the source library: its kind, catalog rows and book directories
    komga0,         \* the destination tree as the first invocation found it
    komga,          \* the destination tree: root, group directories, files
    author_filter,  \* the --author argument, or None
    dry_run,        \* self.dry_run of the running migrator
    metadata_cache, \* self.metadata_cache, in insertion order
    stats,          \* self.stats
    pc,             \* position of migrate_library
    cur,            \* position of the loop over metadata_cache.items()
    pending,        \* ebook_files of the current book not yet handled by the copy loop
    log,            \* the records handed to the logger by this run
    summary,        \* the statistics print_summary reported, if it ran
    run,            \* which invocation of the script is running
    first           \* what the first invocation left behind

fvars == <<fin, fout, fpc>>

mvars == <<calibre, komga0, komga, author_filter, dry_run, metadata_cache, stats, pc, cur, pending, log, summary, run, first>>

vars == <<fvars, mvars>>

\* Python's None where a string is expected (no string is a sequence holding "None")
None == <<"None">>

\* SQL NULL / Python None where a number is expected; a number n is <<n>>
Null == <<>>

(***************************************************************************)
(* Characters and string helpers (Python str methods used by the code)     *)
(***************************************************************************)
UpperChars == <<"A","B","C","D","E","F","G","H","I","J","K","L","M","N","O","P","Q","R","S","T","U","V","W","X","Y","Z">>

LowerChars == <<"a","b","c","d","e","f","g","h","i","j","k","l","m","n","o","p","q","r","s","t","u","v","w","x","y","z">>

DigitChars == <<"0","1","2","3","4","5","6","7","8","9">>

Digits == {DigitChars[i] : i \in 1..Len(DigitChars)}

\* what \s matches and what str.strip() removes
Whitespace == {" ", "\t", "\n", "\r"}

\* the character class of sanitize_filename's re.sub
InvalidChars == {"<", ">", ":", "\"", "/", "\\", "|", "?", "*"}

\* the argument of sanitized.strip('. ')
StripChars == {".", " "}

SetMin(S) == CHOOSE x \in S : \A y \in S : x <= y

SetMax(S) == CHOOSE x \in S : \A y \in S : x >= y

\* str.lower() of one character
lower_char(c) == IF \E i \in 1..Len(UpperChars) : UpperChars[i] = c THEN LowerChars[CHOOSE i \in 1..Len(UpperChars) : UpperChars[i] = c] ELSE c

\* str.lower()
lower(s) == [i \in 1..Len(s) |-> lower_char(s[i])]

\* str.strip(chars)
strip(s, chars) ==
    LET keep == {i \in 1..Len(s) : s[i] \notin chars}
    IN  IF keep = {} THEN <<>> ELSE SubSeq(s, SetMin(keep), SetMax(keep))

\* needle in haystack
contains(haystack, needle) ==
    \E i \in 0..(Len(haystack) - Len(needle)) : SubSeq(haystack, i + 1, i + Len(needle)) = needle

\* s.split(',')[0]
split_first(s, sep) ==
    LET hits == {i \in 1..Len(s) : s[i] = sep}
    IN  IF hits = {} THEN s ELSE SubSeq(s, 1, SetMin(hits) - 1)

\* s.replace(old, new) for one-character old and new
replace_char(s, old, new) == [i \in 1..Len(s) |-> IF s[i] = old THEN new ELSE s[i]]

\* str(n) for a natural number n
RECURSIVE int_str(_)
int_str(n) == IF n < 10 THEN <<DigitChars[n + 1]>> ELSE int_str(n \div 10) \o <<DigitChars[(n % 10) + 1]>>

RECURSIVE zeros(_)
zeros(k) == IF k <= 0 THEN <<>> ELSE <<"0">> \o zeros(k - 1)

\* s.zfill(width) for an unsigned s
zfill(s, width) == zeros(width - Len(s)) \o s

(***************************************************************************)
(* Name Sanitizer                                                          *)
(***************************************************************************)
MaxNameLen == 100

\* re.sub(r'<ws>\(\d+\)\s*$', '', title), <ws> being \s* (minWs = 0) or \s+ (minWs = 1)
strip_numbering(title, minWs) ==
    LET n == Len(title)
        \* the closing parenthesis: the last character that is not whitespace
        nonWs == {i \in 1..n : title[i] \notin Whitespace}
        close == IF nonWs = {} THEN 0 ELSE SetMax(nonWs)
        \* the opening parenthesis: before a non-empty run of digits
        nonDigit == {i \in 1..(close - 1) : title[i] \notin Digits}
        open == IF nonDigit = {} THEN 0 ELSE SetMax(nonDigit)
        shaped == /\ close > 0
                  /\ title[close] = ")"
                  /\ open > 0
                  /\ title[open] = "("
                  /\ open < close - 1
        \* the whitespace run before the opening parenthesis (greedy, leftmost)
        before == {i \in 1..(open - 1) : title[i] \notin Whitespace}
        start == IF before = {} THEN 1 ELSE SetMax(before) + 1
    IN  IF shaped /\ (open - start) >= minWs THEN SubSeq(title, 1, start - 1) ELSE title

clean_calibre_title(title) ==
    IF title = <<>> THEN title
    ELSE strip(strip_numbering(strip_numbering(title, 0), 1), Whitespace)

truncate(s) == IF Len(s) > MaxNameLen THEN SubSeq(s, 1, MaxNameLen) ELSE s

replace_invalid(s) == [i \in 1..Len(s) |-> IF s[i] \in InvalidChars THEN "_" ELSE s[i]]

sanitize_filename(filename) == truncate(strip(replace_invalid(filename), StripChars))

(***************************************************************************)
(* Path Resolver                                                           *)
(***************************************************************************)
\* Python truthiness of an optional string: None and '' are false
truthy_str(x) == x # None /\ x # <<>>

\* Python truthiness of an optional number: None and 0 are false
truthy_num(x) == x # Null /\ x[1] # 0

\* series_index values are held in tenths: <<35>> is 3.5
is_whole(tenths) == tenths % 10 = 0

\* str(int(series_index)).zfill(2)
whole_volume(tenths) == zfill(int_str(tenths \div 10), 2)

\* f"{series_index:05.1f}".replace('.', '_')
decimal_volume(tenths) ==
    replace_char(zfill(int_str(tenths \div 10) \o <<".">> \o int_str(tenths % 10), 5), ".", "_")

\* pathlib's PurePath.suffix of a file name
suffix(name) ==
    LET dots == {i \in 1..Len(name) : name[i] = "."}
        last == IF dots = {} THEN 0 ELSE SetMax(dots)
    IN  IF 1 < last /\ last < Len(name) THEN SubSeq(name, last, Len(name)) ELSE <<>>

get_series_folder_name(metadata) ==
    IF truthy_str(metadata.series)
    THEN sanitize_filename(metadata.author \o <<" ", "-", " ">> \o metadata.series)
    ELSE sanitize_filename(metadata.author)

\* the test "if series and series_index" of get_file_name
in_series(metadata) == truthy_str(metadata.series) /\ truthy_num(metadata.series_index)

get_file_name(metadata, original_filename) ==
    LET clean_title == clean_calibre_title(metadata.title)
        extension == suffix(original_filename)
        volume_num == IF is_whole(metadata.series_index[1])
                      THEN whole_volume(metadata.series_index[1])
                      ELSE decimal_volume(metadata.series_index[1])
        filename == IF in_series(metadata)
                    THEN <<"V","o","l","u","m","e"," ">> \o volume_num \o <<" ","-"," ">> \o clean_title
                    ELSE clean_title
    IN  sanitize_filename(filename) \o extension

(***************************************************************************)
(* Catalog Loader                                                          *)
(***************************************************************************)
UnknownAuthor == <<"U","n","k","n","o","w","n"," ","A","u","t","h","o","r">>

\* the body of the loop over the query's rows
row_metadata(row) ==
    LET first_author == IF truthy_str(row.author_name)
                        THEN strip(split_first(row.author_name, ","), Whitespace)
                        ELSE row.author_name
    IN  [id |-> row.id,
         title |-> row.title,
         author |-> IF truthy_str(first_author) THEN first_author ELSE UnknownAuthor,
         series |-> row.series_name,
         series_index |-> row.series_index]

\* self.metadata_cache after the loop: one (path, metadata) item per row, in query order
load_calibre_metadata(rows) ==
    [k \in 1..Len(rows) |-> [key |-> rows[k].path, metadata |-> row_metadata(rows[k])]]

(***************************************************************************)
(* Filesystem: a path is a sequence of components; pathlib drops the       *)
(* empty and the '.' components when it joins and prints a path.           *)
(***************************************************************************)
normal_path(path) == SelectSeq(path, LAMBDA c : c \notin {"", "."})

\* book_path.exists() and book_path.is_dir(), book_path being calibre_path / path_key
book_dir_exists(path_key) ==
    /\ normal_path(path_key) \in DOMAIN calibre.dirs
    /\ calibre.dirs[normal_path(path_key)].is_dir

\* the directory entries of an existing book directory
book_entries(path_key) == calibre.dirs[normal_path(path_key)].entries

\* self.metadata_cache.get(path_key), path_key being the printed relative path
get_book_metadata(path_key) ==
    LET hits == {k \in 1..Len(metadata_cache) : metadata_cache[k].key = normal_path(path_key)}
    IN  IF hits = {} THEN Null ELSE <<metadata_cache[SetMax(hits)].metadata>>

supported_formats == {<<".","e","p","u","b">>, <<".","k","e","p","u","b">>}

find_ebook_files(path_key) ==
    {e.name : e \in {x \in book_entries(path_key) : x.is_file /\ lower(suffix(x.name)) \in supported_formats}}

\* the existence test left out
dest_exists_never(dir, name) == FALSE

\* dest_file.exists()
dest_exists(dir, name) == \E f \in komga.files : f.dir = dir /\ f.name = name

\* shutil.copy2 completed: the destination holds the source's content
copied_file(dir, name, path_key, src_name) ==
    [dir |-> dir, name |-> name, data |-> [book |-> normal_path(path_key), file |-> src_name, whole |-> TRUE]]

\* shutil.copy2 raised after it had opened the destination for writing
partial_file(dir, name, path_key, src_name) ==
    [dir |-> dir, name |-> name, data |-> [book |-> normal_path(path_key), file |-> src_name, whole |-> FALSE]]

(***************************************************************************)
(* Logging and statistics                                                  *)
(***************************************************************************)
record(level, msg, book, dir, name) == [level |-> level, msg |-> msg, book |-> book, dir |-> dir, name |-> name]

ZeroStats == [total_books |-> 0, migrated_books |-> 0, skipped_books |-> 0, errors |-> 0]

count_total(s) == [s EXCEPT !.total_books = @ + 1]

count_migrated(s) == [s EXCEPT !.migrated_books = @ + 1]

\* the skip is logged but not counted
count_skipped_forgotten(s) == s

count_skipped(s) == [s EXCEPT !.skipped_books = @ + 1]

count_error(s) == [s EXCEPT !.errors = @ + 1]

(***************************************************************************)
(* Migration Engine                                                        *)
(***************************************************************************)
\* the root created whatever the mode
validated_root_always(dry, exists) == TRUE

\* the destination root after validate_paths
validated_root(dry, exists) == IF ~dry THEN TRUE ELSE exists

\* "in" where the code has "not in"
filtered_out_inverted(filter, author) == truthy_str(filter) /\ contains(lower(author), lower(filter))

\* the test of the author filter in migrate_library: TRUE when the book is passed over
filtered_out(filter, author) == truthy_str(filter) /\ ~contains(lower(author), lower(filter))

\* the missing directory counted as a skipped book
after_missing_dir_counted(s) == count_skipped(count_total(s))

\* the statistics after a book whose directory is missing
after_missing_dir(s) == s

CurKey == metadata_cache[cur].key

CurMetadata == get_book_metadata(CurKey)[1]

CurFolder == get_series_folder_name(CurMetadata)

InLoop == pc = "loop" /\ cur <= Len(metadata_cache)

\* validate_paths returns False: the run ends without a summary
ValidateFails ==
    /\ pc = "start"
    /\ calibre.kind \in {"missing", "file", "nodb"}
    /\ log' = log \cup {record("error", "invalid calibre path", <<>>, <<>>, <<>>)}
    /\ pc' = "aborted"
    /\ UNCHANGED <<fvars, calibre, komga0, komga, author_filter, dry_run, metadata_cache, stats, cur, pending, summary, run, first>>

\* validate_paths passes, load_calibre_metadata returns False
LoadFails ==
    /\ pc = "start"
    /\ calibre.kind = "baddb"
    /\ komga' = [komga EXCEPT !.root = validated_root(dry_run, @)]
    /\ log' = log \cup {record("error", "Error loading Calibre metadata", <<>>, <<>>, <<>>)}
    /\ pc' = "aborted"
    /\ UNCHANGED <<fvars, calibre, komga0, author_filter, dry_run, metadata_cache, stats, cur, pending, summary, run, first>>

\* validate_paths and load_calibre_metadata pass: the loop over the index begins
StartRun ==
    /\ pc = "start"
    /\ calibre.kind = "library"
    /\ komga' = [komga EXCEPT !.root = validated_root(dry_run, @)]
    /\ metadata_cache' = load_calibre_metadata(calibre.rows)
    /\ cur' = 1
    /\ pc' = "loop"
    /\ UNCHANGED <<fvars, calibre, komga0, author_filter, dry_run, stats, pending, log, summary, run, first>>

\* migrate_library: the book path does not exist or is no directory
BookPathMissing ==
    /\ InLoop
    /\ ~book_dir_exists(CurKey)
    /\ log' = log \cup {record("warning", "Book path does not exist", CurKey, <<>>, <<>>)}
    /\ stats' = after_missing_dir(stats)
    /\ cur' = cur + 1
    /\ UNCHANGED <<fvars, calibre, komga0, komga, author_filter, dry_run, metadata_cache, pc, pending, summary, run, first>>

\* migrate_library: the author filter passes the book over
AuthorFiltered ==
    /\ InLoop
    /\ book_dir_exists(CurKey)
    /\ filtered_out(author_filter, metadata_cache[cur].metadata.author)
    /\ cur' = cur + 1
    /\ UNCHANGED <<fvars, calibre, komga0, komga, author_filter, dry_run, metadata_cache, stats, pc, pending, log, summary, run, first>>

Considered ==
    /\ InLoop
    /\ book_dir_exists(CurKey)
    /\ ~filtered_out(author_filter, metadata_cache[cur].metadata.author)

\* migrate_book: no metadata under the printed path
SkipNoMetadata ==
    /\ Considered
    /\ get_book_metadata(CurKey) = Null
    /\ stats' = count_skipped(count_total(stats))
    /\ log' = log \cup {record("warning", "No metadata found", CurKey, <<>>, <<>>)}
    /\ cur' = cur + 1
    /\ UNCHANGED <<fvars, calibre, komga0, komga, author_filter, dry_run, metadata_cache, pc, pending, summary, run, first>>

Migratable == Considered /\ get_book_metadata(CurKey) # Null

\* migrate_book: the directory holds no supported ebook file
SkipNoFiles ==
    /\ Migratable
    /\ find_ebook_files(CurKey) = {}
    /\ stats' = count_skipped(count_total(stats))
    /\ log' = log \cup {record("warning", "No supported ebook files found", CurKey, <<>>, <<>>)}
    /\ cur' = cur + 1
    /\ UNCHANGED <<fvars, calibre, komga0, komga, author_filter, dry_run, metadata_cache, pc, pending, summary, run, first>>

\* migrate_book, dry run: the would-be files are logged, the book counts as migrated
DryRunBook ==
    /\ Migratable
    /\ find_ebook_files(CurKey) # {}
    /\ dry_run
    /\ log' = log \cup {record("info", "Migrating", CurKey, CurFolder, <<>>)}
                  \cup {record("info", "Would create", CurKey, CurFolder, get_file_name(CurMetadata, f)) : f \in find_ebook_files(CurKey)}
    /\ stats' = count_migrated(count_total(stats))
    /\ cur' = cur + 1
    /\ UNCHANGED <<fvars, calibre, komga0, komga, author_filter, dry_run, metadata_cache, pc, pending, summary, run, first>>

\* migrate_book, real run: series_path.mkdir succeeds, the copy loop begins
BeginBook ==
    /\ Migratable
    /\ find_ebook_files(CurKey) # {}
    /\ ~dry_run
    /\ log' = log \cup {record("info", "Migrating", CurKey, CurFolder, <<>>)}
    /\ stats' = count_total(stats)
    /\ komga' = [komga EXCEPT !.dirs = @ \cup {CurFolder}]
    /\ pending' = find_ebook_files(CurKey)
    /\ pc' = "copying"
    /\ UNCHANGED <<fvars, calibre, komga0, author_filter, dry_run, metadata_cache, cur, summary, run, first>>

\* the failed book counted as migrated as well
after_exception_migrated(s) == count_migrated(count_error(s))

\* the statistics after the except clause of migrate_book
after_exception(s) == count_error(s)

\* migrate_book, real run: series_path.mkdir raises
MkdirFails ==
    /\ Migratable
    /\ find_ebook_files(CurKey) # {}
    /\ ~dry_run
    /\ log' = log \cup {record("info", "Migrating", CurKey, CurFolder, <<>>),
                        record("error", "Error migrating", CurKey, <<>>, <<>>)}
    /\ stats' = after_exception(count_total(stats))
    /\ cur' = cur + 1
    /\ UNCHANGED <<fvars, calibre, komga0, komga, author_filter, dry_run, metadata_cache, pc, pending, summary, run, first>>

\* the copy loop: the destination exists, the file is passed over
SkipExisting ==
    /\ pc = "copying"
    /\ \E f \in pending :
          /\ dest_exists(CurFolder, get_file_name(CurMetadata, f))
          /\ log' = log \cup {record("warning", "File already exists, skipping", CurKey, CurFolder, get_file_name(CurMetadata, f))}
          /\ pending' = pending \ {f}
    /\ UNCHANGED <<fvars, calibre, komga0, komga, author_filter, dry_run, metadata_cache, stats, pc, cur, summary, run, first>>

\* the copy loop: shutil.copy2 succeeds
CopyFile ==
    /\ pc = "copying"
    /\ \E f \in pending :
          /\ ~dest_exists(CurFolder, get_file_name(CurMetadata, f))
          /\ komga' = [komga EXCEPT !.files = @ \cup {copied_file(CurFolder, get_file_name(CurMetadata, f), CurKey, f)}]
          /\ log' = log \cup {record("debug", "Copied", CurKey, CurFolder, get_file_name(CurMetadata, f))}
          /\ pending' = pending \ {f}
    /\ UNCHANGED <<fvars, calibre, komga0, author_filter, dry_run, metadata_cache, stats, pc, cur, summary, run, first>>

\* the copy loop: shutil.copy2 raises, leaving nothing or a partial destination file
CopyFails ==
    /\ pc = "copying"
    /\ \E f \in pending :
          /\ ~dest_exists(CurFolder, get_file_name(CurMetadata, f))
          /\ \/ UNCHANGED komga
             \/ komga' = [komga EXCEPT !.files = @ \cup {partial_file(CurFolder, get_file_name(CurMetadata, f), CurKey, f)}]
    /\ log' = log \cup {record("error", "Error migrating", CurKey, <<>>, <<>>)}
    /\ stats' = after_exception(stats)
    /\ pending' = {}
    /\ pc' = "loop"
    /\ cur' = cur + 1
    /\ UNCHANGED <<fvars, calibre, komga0, author_filter, dry_run, metadata_cache, summary, run, first>>

\* the copy loop ends: the book counts as migrated
FinishBook ==
    /\ pc = "copying"
    /\ pending = {}
    /\ stats' = count_migrated(stats)
    /\ pc' = "loop"
    /\ cur' = cur + 1
    /\ UNCHANGED <<fvars, calibre, komga0, komga, author_filter, dry_run, metadata_cache, pending, log, summary, run, first>>

\* the loop over the index ends
print_summary ==
    /\ pc = "loop"
    /\ cur > Len(metadata_cache)
    /\ summary' = <<stats>>
    /\ pc' = "done"
    /\ UNCHANGED <<fvars, calibre, komga0, komga, author_filter, dry_run, metadata_cache, stats, cur, pending, log, run, first>>

\* the script is started again, for real, on the same library with the same arguments
Rerun ==
    /\ pc = "done"
    /\ run = "first"
    /\ first' = [dry_run |-> dry_run, komga |-> komga, stats |-> stats, log |-> log]
    /\ run' = "second"
    /\ dry_run' = FALSE
    /\ metadata_cache' = <<>>
    /\ stats' = ZeroStats
    /\ log' = {}
    /\ summary' = <<>>
    /\ cur' = 0
    /\ pc' = "start"
    /\ UNCHANGED <<fvars, calibre, komga0, komga, author_filter, pending>>

migrate_book == SkipNoMetadata \/ SkipNoFiles \/ DryRunBook \/ BeginBook \/ MkdirFails \/ SkipExisting \/ CopyFile \/ CopyFails \/ FinishBook

migrate_library == ValidateFails \/ LoadFails \/ StartRun \/ BookPathMissing \/ AuthorFiltered \/ migrate_book \/ print_summary

(***************************************************************************)
(* The libraries, destinations and arguments the script is run on          *)
(***************************************************************************)
MaxBooks == 2

\* The catalog's rows, in the order of the query's ORDER BY clause
Library == <<
    [id |-> 1, path |-> <<"Un", "", "V">>, title |-> <<"V">>, author_name |-> None,
     series_name |-> None, series_index |-> <<10>>],
    [id |-> 2, path |-> <<"Ab", "T1">>, title |-> <<"T"," ","(","1",")">>, author_name |-> <<"A","b">>,
     series_name |-> None, series_index |-> <<10>>],
    [id |-> 3, path |-> <<"Ab", "T2">>, title |-> <<"T"," ","(","2",")">>, author_name |-> <<"A","b">>,
     series_name |-> None, series_index |-> <<10>>],
    [id |-> 4, path |-> <<"cD", "U">>, title |-> <<"U">>, author_name |-> <<"c","D",","," ","x">>,
     series_name |-> <<"S">>, series_index |-> <<20>> ] >>

\* the rows of Library picked by the set of positions P, in order
RECURSIVE pick(_, _)
pick(P, k) ==
    IF k > Len(Library) THEN <<>>
    ELSE (IF k \in P THEN <<Library[k]>> ELSE <<>>) \o pick(P, k + 1)

Catalogs == {pick(P, 1) : P \in {Q \in SUBSET (1..Len(Library)) : Cardinality(Q) <= MaxBooks}}

NotADir == [is_dir |-> FALSE, entries |-> {}]

NoEbooks ==
    [is_dir |-> TRUE, entries |-> {[name |-> <<"c",".","t","x","t">>, is_file |-> TRUE],
                                   [name |-> <<"d",".","e","p","u","b">>, is_file |-> FALSE]}]

OneEbook == [is_dir |-> TRUE, entries |-> {[name |-> <<"a",".","e","p","u","b">>, is_file |-> TRUE]}]

TwoFormats ==
    [is_dir |-> TRUE, entries |-> {[name |-> <<"a",".","e","p","u","b">>, is_file |-> TRUE],
                                   [name |-> <<"B",".","K","E","P","U","B">>, is_file |-> TRUE],
                                   [name |-> <<"c",".","t","x","t">>, is_file |-> TRUE]}]

TwoEpubs ==
    [is_dir |-> TRUE, entries |-> {[name |-> <<"a",".","e","p","u","b">>, is_file |-> TRUE],
                                   [name |-> <<"b",".","e","p","u","b">>, is_file |-> TRUE]}]

\* what may lie at each book's path, when anything does
BookDirs(path) ==
    CASE path = <<"Un", "V">> -> {NotADir, OneEbook}
      [] path = <<"Ab", "T1">> -> {NoEbooks, TwoFormats, TwoEpubs}
      [] OTHER -> {TwoFormats}

\* the directory trees over the paths of P
RECURSIVE trees(_)
trees(P) ==
    IF P = {} THEN {<<>>}
    ELSE LET p == CHOOSE x \in P : TRUE
         IN  {(p :> d) @@ t : d \in BookDirs(p), t \in trees(P \ {p})}

Sources(rows) ==
    UNION {trees(P) : P \in SUBSET {normal_path(rows[k].path) : k \in 1..Len(rows)}}

Libraries ==
    UNION {{[kind |-> "library", rows |-> rows, dirs |-> dirs] : dirs \in Sources(rows)} : rows \in Catalogs}

BrokenLibraries == {[kind |-> k, rows |-> <<>>, dirs |-> <<>>] : k \in {"missing", "file", "nodb", "baddb"}}

OldData == [book |-> <<>>, file |-> <<>>, whole |-> TRUE]

Destinations == {
    [root |-> FALSE, dirs |-> {}, files |-> {}],
    [root |-> TRUE, dirs |-> {<<"A","b">>},
     files |-> {[dir |-> <<"A","b">>, name |-> <<"T",".","e","p","u","b">>, data |-> OldData]}] }

AuthorFilters == {None, <<"B">>}

IdleFunctions ==
    /\ fin = <<>>
    /\ fout = <<>>
    /\ fpc = "idle"

Init ==
    /\ IdleFunctions
    /\ calibre \in Libraries \cup BrokenLibraries
    /\ komga0 \in Destinations
    /\ komga = komga0
    /\ author_filter \in AuthorFilters
    /\ dry_run \in BOOLEAN
    /\ metadata_cache = <<>>
    /\ stats = ZeroStats
    /\ pc = "start"
    /\ cur = 0
    /\ pending = {}
    /\ log = {}
    /\ summary = <<>>
    /\ run = "first"
    /\ first = <<>>

Next == migrate_library \/ Rerun

Spec == Init /\ [][Next]_vars

(***************************************************************************)
(* The sanitizer on its own: short affixes around a run of filler whose    *)
(* length brings the name up to, and past, the length limit.               *)
(***************************************************************************)
MaxAffix == 2

NearLimit == 3

AffixChars == {"a", " ", ".", "<"}

RECURSIVE fill(_)
fill(k) == IF k <= 0 THEN <<>> ELSE <<"a">> \o fill(k - 1)

Affixes == UNION {[1..k -> AffixChars] : k \in 0..MaxAffix}

FillLengths == {0} \cup ((MaxNameLen - NearLimit)..MaxNameLen)

SanInputs == {pre \o fill(k) \o suf : pre \in Affixes, suf \in Affixes, k \in FillLengths}

IdleMigration ==
    /\ calibre = [kind |-> "missing", rows |-> <<>>, dirs |-> <<>>]
    /\ komga0 = [root |-> FALSE, dirs |-> {}, files |-> {}]
    /\ komga = komga0
    /\ author_filter = None
    /\ dry_run = TRUE
    /\ metadata_cache = <<>>
    /\ stats = ZeroStats
    /\ pc = "idle"
    /\ cur = 0
    /\ pending = {}
    /\ log = {}
    /\ summary = <<>>
    /\ run = "none"
    /\ first = <<>>

InitSan ==
    /\ IdleMigration
    /\ fin \in SanInputs
    /\ fout = <<>>
    /\ fpc = "input"

SanitizeOnce ==
    /\ fpc = "input"
    /\ fout' = <<sanitize_filename(fin)>>
    /\ fpc' = "once"
    /\ UNCHANGED <<fin, mvars>>

SanitizeTwice ==
    /\ fpc = "once"
    /\ fout' = Append(fout, sanitize_filename(fout[1]))
    /\ fpc' = "twice"
    /\ UNCHANGED <<fin, mvars>>

NextSan == SanitizeOnce \/ SanitizeTwice

SpecSan == InitSan /\ [][NextSan]_vars

(***************************************************************************)
(* The file namer on its own                                               *)
(***************************************************************************)
MaxVolume == 12

Titles == {<<"T">>, <<"T"," ","(","8","4",")">>, <<"T",":"," ","2">>, <<"B","o","o","k"," ","2","0","2","0">>}

FileNames == {<<"a",".","e","p","u","b">>, <<"b",".","x",".","K","E","P","U","B">>, <<"n","o","e","x","t">>}

\* series_index values in tenths: the whole numbers from 0, three-digit ones, and fractions
SeriesIndexes ==
    {Null} \cup {<<10 * n>> : n \in 0..MaxVolume} \cup {<<990>>, <<1000>>, <<5>>, <<35>>, <<125>>, <<1235>>}

NameInputs ==
    [metadata : [title : Titles, author : {<<"A","b">>}, series : {None, <<"S">>}, series_index : SeriesIndexes],
     original_filename : FileNames]

InitNames ==
    /\ IdleMigration
    /\ fin \in NameInputs
    /\ fout = <<>>
    /\ fpc = "input"

ResolveFileName ==
    /\ fpc = "input"
    /\ fout' = <<get_file_name(fin.metadata, fin.original_filename)>>
    /\ fpc' = "named"
    /\ UNCHANGED <<fin, mvars>>

NextNames == ResolveFileName

SpecNames == InitNames /\ [][NextNames]_vars

(***************************************************************************)
(* Properties                                                              *)
(***************************************************************************)
Outcomes(s) == s.migrated_books + s.skipped_books + s.errors

Logged(l, msg) == {r \in l : r.msg = msg}

LoggedPaths(l, msg) == {<<r.dir, r.name>> : r \in Logged(l, msg)}

FileAt(dir, name) == \E f \in komga.files : f.dir = dir /\ f.name = name

\* the books of the index the loop hands to migrate_book
ConsideredBooks ==
    {k \in 1..Len(metadata_cache) :
        /\ book_dir_exists(metadata_cache[k].key)
        /\ ~filtered_out(author_filter, metadata_cache[k].metadata.author)}

\* the books of the index this run counted as migrated
MigratedBooks ==
    {k \in ConsideredBooks :
        /\ get_book_metadata(metadata_cache[k].key) # Null
        /\ find_ebook_files(metadata_cache[k].key) # {}
        /\ \A r \in Logged(log, "Error migrating") : r.book # metadata_cache[k].key}

\* C1: between books, and in the summary, total = migrated + skipped + errors;
\* while a book is being copied it is in total and in no outcome counter yet
C1_CounterPartition ==
    /\ pc # "copying" => stats.total_books = Outcomes(stats)
    /\ pc = "copying" => stats.total_books = Outcomes(stats) + 1
    /\ summary # <<>> => summary[1].total_books = Outcomes(summary[1])

C1_Witness ==
    /\ pc = "done"
    /\ summary = <<stats>>
    /\ stats.total_books = 2
    /\ stats.skipped_books = 1
    /\ stats.errors = 1

\* the loop stands before a book whose source directory is missing or no directory
AtMissingDir == InLoop /\ ~book_dir_exists(CurKey)

\* C2 as claimed: a book whose source directory is missing is counted in skipped and total
C2_MissingDirCounted ==
    [][AtMissingDir =>
          /\ stats'.skipped_books = stats.skipped_books + 1
          /\ stats'.total_books = stats.total_books + 1]_vars

\* C2 amended: a book whose source directory is missing changes no counter and nothing
\* in the destination; a warning is logged and the loop goes on to the next book
C2_MissingDirPassedOver ==
    [][AtMissingDir =>
          /\ stats' = stats
          /\ komga' = komga
          /\ record("warning", "Book path does not exist", CurKey, <<>>, <<>>) \in log'
          /\ pc' = "loop"
          /\ cur' = cur + 1]_vars

C2_Witness ==
    /\ pc = "done"
    /\ Len(metadata_cache) = 2
    /\ ~book_dir_exists(metadata_cache[1].key)
    /\ record("warning", "Book path does not exist", metadata_cache[1].key, <<>>, <<>>) \in log
    /\ stats.total_books = 1
    /\ stats.migrated_books = 1

\* C3: a second real run after a real run without errors copies nothing and leaves
\* the destination as the first run left it; every file it reaches exists already
C3_RerunIdempotent ==
    (run = "second" /\ ~first.dry_run /\ first.stats.errors = 0) =>
        /\ komga = first.komga
        /\ Logged(log, "Copied") = {}
        /\ pc = "copying" => \A f \in pending : FileAt(CurFolder, get_file_name(CurMetadata, f))

C3_Witness ==
    /\ run = "second"
    /\ pc = "done"
    /\ ~first.dry_run
    /\ first.stats.errors = 0
    /\ Cardinality(Logged(first.log, "Copied")) >= 2
    /\ Cardinality(Logged(log, "File already exists, skipping")) >= 2
    /\ stats.migrated_books = first.stats.migrated_books

\* C4: a dry run leaves the destination as it found it, the root included
C4_DryRunFrame == (run = "first" /\ dry_run) => komga = komga0

C4_Witness ==
    /\ run = "first"
    /\ dry_run
    /\ pc = "done"
    /\ ~komga.root
    /\ stats.migrated_books >= 1
    /\ Logged(log, "Would create") # {}

\* C5: the paths a dry run logs as "would create" are the paths the real run on the
\* same inputs creates (the real run meeting no failure)
C5_DryRunAgreement ==
    (run = "second" /\ pc = "done" /\ first.dry_run /\ stats.errors = 0) =>
        LoggedPaths(first.log, "Would create") = LoggedPaths(log, "Copied")

\* a real-run book ends by an exception of mkdir or of copy2
BookFails ==
    /\ ~dry_run
    /\ cur' = cur + 1
    /\ \/ pc = "copying" /\ pending # {}
       \/ pc = "loop" /\ Migratable /\ find_ebook_files(CurKey) # {}

\* C6: a failing book adds one to errors and nothing to migrated, what it had copied
\* stays, the loop goes on; at the end every considered book was handled and the
\* summary is emitted
C6_CopyFailure ==
    /\ [][BookFails =>
             /\ stats'.errors = stats.errors + 1
             /\ stats'.migrated_books = stats.migrated_books
             /\ stats'.skipped_books = stats.skipped_books
             /\ komga.files \subseteq komga'.files
             /\ komga.dirs \subseteq komga'.dirs
             /\ pc' = "loop"]_vars
    /\ [](pc = "done" => (summary = <<stats>> /\ stats.total_books = Cardinality(ConsideredBooks)))

C6_Witness ==
    /\ run = "first"
    /\ ~dry_run
    /\ pc = "done"
    /\ Len(metadata_cache) = 2
    /\ stats.errors = 1
    /\ stats.migrated_books = 1
    /\ \E e \in Logged(log, "Error migrating") : e.book = metadata_cache[1].key
    /\ \E c \in Logged(log, "Copied") :
          /\ c.book = metadata_cache[1].key
          /\ FileAt(c.dir, c.name)

SameLetter(a, b) == a = b \/ \E k \in 1..Len(UpperChars) : {a, b} = {UpperChars[k], LowerChars[k]}

\* filter occurs in author, letter case ignored
AuthorMatches(filter, author) ==
    \E i \in 0..(Len(author) - Len(filter)) : \A j \in 1..Len(filter) : SameLetter(author[i + j], filter[j])

\* C7: with a filter, a book whose author does not match changes no counter and
\* nothing in the destination, and a matching book with a directory is counted
C7_AuthorFilter ==
    [][(InLoop /\ author_filter # None) =>
          /\ ~AuthorMatches(author_filter, metadata_cache[cur].metadata.author) =>
                (stats' = stats /\ komga' = komga /\ pc' = "loop" /\ cur' = cur + 1)
          /\ (AuthorMatches(author_filter, metadata_cache[cur].metadata.author) /\ book_dir_exists(CurKey)) =>
                stats'.total_books = stats.total_books + 1]_vars

C7_Witness ==
    /\ pc = "done"
    /\ ~dry_run
    /\ author_filter = <<"B">>
    /\ Len(metadata_cache) = 2
    /\ stats.total_books = 1
    /\ stats.migrated_books = 1
    /\ \E k \in 1..Len(metadata_cache) :
          /\ ~AuthorMatches(author_filter, metadata_cache[k].metadata.author)
          /\ book_dir_exists(metadata_cache[k].key)
          /\ find_ebook_files(metadata_cache[k].key) # {}

\* C8: sanitizing a sanitized name changes nothing
C8_SanitizeIdempotent == fpc = "twice" => fout[2] = fout[1]

Pad2(n) == IF n < 10 THEN <<"0">> \o int_str(n) ELSE int_str(n)

\* C9: with a series and a whole series index n (from 0), the name is
\* sanitize("Volume NN - title'") + extension; the title-only name needs the series
\* or the index to be absent
C9_VolumeNaming ==
    fpc = "named" =>
        LET m == fin.metadata
            present == m.series # None /\ m.series_index # Null
            title2 == clean_calibre_title(m.title)
            ext == suffix(fin.original_filename)
        IN  /\ (present /\ is_whole(m.series_index[1])) =>
                  fout[1] = sanitize_filename(<<"V","o","l","u","m","e"," ">> \o Pad2(m.series_index[1] \div 10) \o <<" ","-"," ">> \o title2) \o ext
            /\ fout[1] = sanitize_filename(title2) \o ext => ~present

\* C10: after a real run into an empty destination (no book failing), every file of
\* every migrated book lies at its destination path with its own content
C10_NoSilentLoss ==
    (run = "first" /\ pc = "done" /\ ~dry_run /\ komga0.files = {} /\ stats.errors = 0) =>
        \A k \in MigratedBooks :
            \A f \in find_ebook_files(metadata_cache[k].key) :
                copied_file(get_series_folder_name(get_book_metadata(metadata_cache[k].key)[1]),
                            get_file_name(get_book_metadata(metadata_cache[k].key)[1], f),
                            metadata_cache[k].key, f) \in komga.files

====
